---- MODULE Spec2Model ----
\* A model of examples/tutorials/california_house_price.py: the text embedder
\* (SimpleTextToEmbedding), the set-up of the tensor frame and the encoders,
\* and the training / evaluation loop with its printed lines.
EXTENDS Integers, Sequences, FiniteSets, TLC

VARIABLES
    pc,                 \* position of the script
    \* ---- command line and data set
    args_pooling,       \* args.pooling
    args_epochs,        \* args.epochs
    is_classification,  \* dataset.task_type.is_classification
    rows,               \* number of rows behind each data loader
    \* ---- text embedder
    last_hidden_state,  \* out.last_hidden_state of the current call: sentence -> token -> value
    embedding,          \* what __call__ returned
    \* ---- tensor frame and model set-up
    col_names_dict,     \* dataset.tensor_frame.col_names_dict
    feat_dict,          \* dataset.tensor_frame.feat_dict (the columns each tensor holds)
    cols0,              \* the columns of the frame as materialized
    stype_encoder_dict, \* stype -> encoder
    model_col_names,    \* the col_names_dict the model was built with
    \* ---- training loop
    epoch, which, it,
    mode,               \* model.training: "train" or "eval"
    grad,               \* the batches whose gradient the .grad fields hold
    params,             \* the parameters: the sequence of gradients applied so far
    loss, loss_accum, accum, total_count,
    train_loss, train_metric, val_metric, test_metric,
    metric, best_val_metric, best_test_metric,
    stdout,             \* the lines printed
    \* ---- history
    log,                \* the calls completed, in order
    hist,               \* the (val, test) metrics of the epochs updated so far
    trace,              \* the steps taken on the current training batch
    steps,              \* optimizer steps taken by the current train() call
    evalParams          \* per loader: the parameter versions its last test() read

vars == <<pc, args_pooling, args_epochs, is_classification, rows,
          last_hidden_state, embedding,
          col_names_dict, feat_dict, cols0, stype_encoder_dict, model_col_names,
          epoch, which, it, mode, grad, params,
          loss, loss_accum, accum, total_count,
          train_loss, train_metric, val_metric, test_metric,
          metric, best_val_metric, best_test_metric,
          stdout, log, hist, trace, steps, evalParams>>

embedVars == <<args_pooling, last_hidden_state, embedding>>
setupVars == <<col_names_dict, feat_dict, cols0, stype_encoder_dict, model_col_names>>
inputVars == <<args_epochs, is_classification, rows>>
others == <<embedVars, setupVars, inputVars>>
trainVars == <<epoch, which, it, mode, grad, params,
               loss, loss_accum, accum, total_count,
               train_loss, train_metric, val_metric, test_metric,
               metric, best_val_metric, best_test_metric,
               stdout, log, hist, trace, steps, evalParams>>

\* ------------------------------------------------------------------ bounds
MaxEpochs == 2
BatchSize == 1

\* ------------------------------------------------------------------ values
None == [tag |-> "none"]
Inf == [tag |-> "inf"]
Ratio(n, d) == [tag |-> "ratio", num |-> n, den |-> d]
Sqrt(n, d) == [tag |-> "sqrt", num |-> n, den |-> d]
Zero == Ratio(0, 1)

\* the values float(loss) takes on a batch
LossVals == {0, 1}

\* a < b on the values a metric takes (x |-> x ** 0.5 is increasing)
Less(a, b) ==
    IF a.tag = "inf" THEN FALSE
    ELSE IF b.tag = "inf" THEN TRUE
    ELSE a.num * b.den < b.num * a.den

LoaderNames == {"train", "val", "test"}

\* the lengths of the batches a DataLoader over n rows yields
BatchLens(n) ==
    [k \in 1..((n + BatchSize - 1) \div BatchSize) |->
        IF k * BatchSize <= n THEN BatchSize ELSE n - (k - 1) * BatchSize]

\* the data sets tried: empty, one full batch, a full batch and a partial one
RowChoices == {0, BatchSize, BatchSize + 1}

\* dataset[:0.8], dataset[0.8:0.9], dataset[0.9:]: the two held-out parts are
\* of one size
Splits == {r \in [LoaderNames -> RowChoices] : r["val"] = r["test"]}

train_loader == BatchLens(rows["train"])
LoaderOf(w) == BatchLens(rows[w])

\* ------------------------------------------------------------------ idle parts
EmbedIdle ==
    /\ args_pooling = "mean" /\ last_hidden_state = <<>> /\ embedding = <<>>

SetupIdle ==
    /\ col_names_dict = <<>> /\ feat_dict = <<>> /\ cols0 = <<>>
    /\ stype_encoder_dict = <<>> /\ model_col_names = <<>>

InputIdle ==
    /\ args_epochs = 0 /\ is_classification = FALSE
    /\ rows = [w \in LoaderNames |-> 0]

TrainIdle ==
    /\ epoch = 0 /\ which = "train" /\ it = 0
    /\ mode = "train"
    /\ grad = {} /\ params = <<>>
    /\ loss = 0 /\ loss_accum = 0 /\ accum = 0 /\ total_count = 0
    /\ train_loss = None /\ train_metric = None
    /\ val_metric = None /\ test_metric = None
    /\ metric = "" /\ best_val_metric = None /\ best_test_metric = None
    /\ stdout = <<>> /\ log = <<>> /\ hist = <<>> /\ trace = <<>> /\ steps = 0
    /\ evalParams = [w \in LoaderNames |-> {}]

\* ------------------------------------------------------------------ text embedder
\* SimpleTextToEmbedding.__call__ on one batch of sentences. The tokenizer pads
\* every sentence to the same length, so out.last_hidden_state is a
\* sentences x tokens array (one hidden value per token here).
MaxSentences == 2
SeqLen == 2
HiddenVals == {0, 1, 2}
Poolings == {"mean", "cls"}

EmbedInit ==
    /\ pc = "embed_call"
    /\ args_pooling \in Poolings
    /\ last_hidden_state = <<>> /\ embedding = <<>>

\* lines 54-63: tokenize, move to the device, run the pretrained model
EmbedModel ==
    /\ pc = "embed_call"
    /\ \E n \in 1..MaxSentences :
         last_hidden_state' \in [1..n -> [1..SeqLen -> HiddenVals]]
    /\ pc' = "embed_return"
    /\ UNCHANGED <<args_pooling, embedding>>
    /\ UNCHANGED <<setupVars, inputVars, trainVars>>

\* line 64: out.last_hidden_state[:, 0, :]
EmbedReturn ==
    /\ pc = "embed_return"
    /\ embedding' = [i \in DOMAIN last_hidden_state |-> last_hidden_state[i][1]]
    /\ pc' = "embed_done"
    /\ UNCHANGED <<args_pooling, last_hidden_state>>
    /\ UNCHANGED <<setupVars, inputVars, trainVars>>

InitEmbed == EmbedInit /\ SetupIdle /\ InputIdle /\ TrainIdle
NextEmbed == EmbedModel \/ EmbedReturn
SpecEmbed == InitEmbed /\ [][NextEmbed]_vars

\* ------------------------------------------------------------------ set-up
MaxCols == 1

categorical == "categorical"
numerical == "numerical"
multicategorical == "multicategorical"
timestamp == "timestamp"
stype_embedding == "embedding"
text_embedded == "text_embedded"

\* the stypes a materialized frame of this script may be keyed by
FrameStypes ==
    {categorical, numerical, multicategorical, timestamp, stype_embedding, text_embedded}

\* the names of the first n columns of stype s
ColNames(s, n) == [j \in 1..n |-> <<s, j>>]

\* Rekey reading d[old] without popping it
RekeyKeepsOld(d, old, new) ==
    [s \in DOMAIN d \cup {new} |-> IF s = new THEN d[old] ELSE d[s]]

\* d[new] = d.pop(old): the right-hand side is evaluated first
Rekey(d, old, new) ==
    [s \in (DOMAIN d \ {old}) \cup {new} |-> IF s = new THEN d[old] ELSE d[s]]

SetupInit ==
    /\ pc = "materialize"
    /\ col_names_dict = <<>> /\ feat_dict = <<>> /\ cols0 = <<>>
    /\ stype_encoder_dict = <<>> /\ model_col_names = <<>>

\* lines 82-86: the frame holds, per stype, the names of its columns and a
\* tensor with one column for each of them
Materialize ==
    /\ pc = "materialize"
    /\ \E K \in SUBSET FrameStypes :
       \E n \in [K -> 1..MaxCols] :
         /\ col_names_dict' = [s \in K |-> ColNames(s, n[s])]
         /\ feat_dict' = [s \in K |-> ColNames(s, n[s])]
         /\ cols0' = [s \in K |-> ColNames(s, n[s])]
    /\ pc' = "rekey_names"
    /\ UNCHANGED <<stype_encoder_dict, model_col_names>>
    /\ UNCHANGED <<embedVars, inputVars, trainVars>>

\* line 87
RekeyNames ==
    /\ pc = "rekey_names"
    /\ IF text_embedded \in DOMAIN col_names_dict
       THEN /\ col_names_dict' = Rekey(col_names_dict, text_embedded, stype_embedding)
            /\ pc' = "rekey_feat"
       ELSE /\ col_names_dict' = col_names_dict
            /\ pc' = "failed"
    /\ UNCHANGED <<feat_dict, cols0, stype_encoder_dict, model_col_names>>
    /\ UNCHANGED <<embedVars, inputVars, trainVars>>

\* the re-keying of col_names_dict without that of feat_dict
RekeyFeatSkipped ==
    /\ pc = "rekey_feat"
    /\ feat_dict' = feat_dict
    /\ pc' = "encoders"
    /\ UNCHANGED <<col_names_dict, cols0, stype_encoder_dict, model_col_names>>
    /\ UNCHANGED <<embedVars, inputVars, trainVars>>

\* line 88
RekeyFeat ==
    /\ pc = "rekey_feat"
    /\ IF text_embedded \in DOMAIN feat_dict
       THEN /\ feat_dict' = Rekey(feat_dict, text_embedded, stype_embedding)
            /\ pc' = "encoders"
       ELSE /\ feat_dict' = feat_dict
            /\ pc' = "failed"
    /\ UNCHANGED <<col_names_dict, cols0, stype_encoder_dict, model_col_names>>
    /\ UNCHANGED <<embedVars, inputVars, trainVars>>

\* lines 103-109
BuildEncoders ==
    /\ pc = "encoders"
    /\ stype_encoder_dict' =
         [s \in {categorical, numerical, stype_embedding, multicategorical, timestamp} |->
            CASE s = categorical -> "EmbeddingEncoder"
              [] s = numerical -> "LinearEncoder"
              [] s = stype_embedding -> "LinearEmbeddingEncoder"
              [] s = multicategorical -> "MultiCategoricalEmbeddingEncoder"
              [] s = timestamp -> "TimestampEncoder"]
    /\ pc' = "build_model"
    /\ UNCHANGED <<col_names_dict, feat_dict, cols0, model_col_names>>
    /\ UNCHANGED <<embedVars, inputVars, trainVars>>

\* lines 92-94 and 116-123: the training frame is a slice of rows of the
\* data set's frame and has its columns
BuildModel ==
    /\ pc = "build_model"
    /\ model_col_names' = col_names_dict
    /\ pc' = "setup_done"
    /\ UNCHANGED <<col_names_dict, feat_dict, cols0, stype_encoder_dict>>
    /\ UNCHANGED <<embedVars, inputVars, trainVars>>

InitSetup == SetupInit /\ EmbedIdle /\ InputIdle /\ TrainIdle
NextSetup == Materialize \/ RekeyNames \/ RekeyFeat \/ BuildEncoders \/ BuildModel
SpecSetup == InitSetup /\ [][NextSetup]_vars

\* ------------------------------------------------------------------ training loop
TrainInit ==
    /\ pc = "start"
    /\ args_epochs \in 0..MaxEpochs
    /\ is_classification \in BOOLEAN
    /\ rows \in Splits
    /\ TrainIdle

MetricInit ==
    /\ pc = "start"
    /\ IF is_classification
       THEN metric' = "Acc" /\ best_val_metric' = Zero /\ best_test_metric' = Zero
       ELSE metric' = "RMSE" /\ best_val_metric' = Inf /\ best_test_metric' = Inf
    /\ pc' = "loop"
    /\ UNCHANGED <<epoch, which, it, mode, grad, params, loss, loss_accum, accum,
                   total_count, train_loss, train_metric, val_metric, test_metric,
                   stdout, log, hist, trace, steps, evalParams>>
    /\ UNCHANGED others

\* EpochLoop running one epoch too many
EpochLoopOffByOne ==
    /\ pc = "loop"
    /\ IF epoch <= args_epochs
       THEN epoch' = epoch + 1 /\ pc' = "train"
       ELSE epoch' = epoch /\ pc' = "final"
    /\ UNCHANGED <<which, it, mode, grad, params, loss, loss_accum, accum,
                   total_count, train_loss, train_metric, val_metric, test_metric,
                   metric, best_val_metric, best_test_metric,
                   stdout, log, hist, trace, steps, evalParams>>
    /\ UNCHANGED others

EpochLoop ==
    /\ pc = "loop"
    /\ IF epoch < args_epochs
       THEN epoch' = epoch + 1 /\ pc' = "train"
       ELSE epoch' = epoch /\ pc' = "final"
    /\ UNCHANGED <<which, it, mode, grad, params, loss, loss_accum, accum,
                   total_count, train_loss, train_metric, val_metric, test_metric,
                   metric, best_val_metric, best_test_metric,
                   stdout, log, hist, trace, steps, evalParams>>
    /\ UNCHANGED others

\* TrainBegin without model.train()
TrainBeginNoMode ==
    /\ pc = "train"
    /\ mode' = mode
    /\ loss_accum' = 0 /\ total_count' = 0
    /\ it' = 0 /\ steps' = 0 /\ trace' = <<>>
    /\ pc' = "train_iter"
    /\ UNCHANGED <<epoch, which, grad, params, loss, accum,
                   train_loss, train_metric, val_metric, test_metric,
                   metric, best_val_metric, best_test_metric,
                   stdout, log, hist, evalParams>>
    /\ UNCHANGED others

TrainBegin ==
    /\ pc = "train"
    /\ mode' = "train"
    /\ loss_accum' = 0 /\ total_count' = 0
    /\ it' = 0 /\ steps' = 0 /\ trace' = <<>>
    /\ pc' = "train_iter"
    /\ UNCHANGED <<epoch, which, grad, params, loss, accum,
                   train_loss, train_metric, val_metric, test_metric,
                   metric, best_val_metric, best_test_metric,
                   stdout, log, hist, evalParams>>
    /\ UNCHANGED others

TrainIter ==
    /\ pc = "train_iter"
    /\ IF it < Len(train_loader)
       THEN it' = it + 1 /\ trace' = <<>> /\ pc' = "train_forward"
       ELSE it' = it /\ trace' = trace /\ pc' = "train_return"
    /\ UNCHANGED <<epoch, which, mode, grad, params, loss, loss_accum, accum,
                   total_count, train_loss, train_metric, val_metric, test_metric,
                   metric, best_val_metric, best_test_metric,
                   stdout, log, hist, steps, evalParams>>
    /\ UNCHANGED others

TrainForward ==
    /\ pc = "train_forward"
    /\ \/ trace' = Append(trace, "forward") /\ pc' = "train_loss"
       \/ trace' = trace /\ pc' = "failed"
    /\ UNCHANGED <<epoch, which, it, mode, grad, params, loss, loss_accum, accum,
                   total_count, train_loss, train_metric, val_metric, test_metric,
                   metric, best_val_metric, best_test_metric,
                   stdout, log, hist, steps, evalParams>>
    /\ UNCHANGED others

TrainLoss ==
    /\ pc = "train_loss"
    /\ loss' \in LossVals
    /\ trace' = Append(trace, "loss")
    /\ pc' = "train_zero_grad"
    /\ UNCHANGED <<epoch, which, it, mode, grad, params, loss_accum, accum,
                   total_count, train_loss, train_metric, val_metric, test_metric,
                   metric, best_val_metric, best_test_metric,
                   stdout, log, hist, steps, evalParams>>
    /\ UNCHANGED others

\* TrainZeroGrad leaving the gradients in place
TrainZeroGradSkipped ==
    /\ pc = "train_zero_grad"
    /\ grad' = grad
    /\ trace' = Append(trace, "zero_grad")
    /\ pc' = "train_backward"
    /\ UNCHANGED <<epoch, which, it, mode, params, loss, loss_accum, accum,
                   total_count, train_loss, train_metric, val_metric, test_metric,
                   metric, best_val_metric, best_test_metric,
                   stdout, log, hist, steps, evalParams>>
    /\ UNCHANGED others

TrainZeroGrad ==
    /\ pc = "train_zero_grad"
    /\ grad' = {}
    /\ trace' = Append(trace, "zero_grad")
    /\ pc' = "train_backward"
    /\ UNCHANGED <<epoch, which, it, mode, params, loss, loss_accum, accum,
                   total_count, train_loss, train_metric, val_metric, test_metric,
                   metric, best_val_metric, best_test_metric,
                   stdout, log, hist, steps, evalParams>>
    /\ UNCHANGED others

TrainBackward ==
    /\ pc = "train_backward"
    /\ grad' = grad \cup {<<epoch, it>>}
    /\ trace' = Append(trace, "backward")
    /\ pc' = "train_accum"
    /\ UNCHANGED <<epoch, which, it, mode, params, loss, loss_accum, accum,
                   total_count, train_loss, train_metric, val_metric, test_metric,
                   metric, best_val_metric, best_test_metric,
                   stdout, log, hist, steps, evalParams>>
    /\ UNCHANGED others

TrainAccum ==
    /\ pc = "train_accum"
    /\ loss_accum' = loss_accum + loss * train_loader[it]
    /\ total_count' = total_count + train_loader[it]
    /\ pc' = "train_step"
    /\ UNCHANGED <<epoch, which, it, mode, grad, params, loss, accum,
                   train_loss, train_metric, val_metric, test_metric,
                   metric, best_val_metric, best_test_metric,
                   stdout, log, hist, trace, steps, evalParams>>
    /\ UNCHANGED others

TrainStep ==
    /\ pc = "train_step"
    /\ params' = Append(params, grad)
    /\ steps' = steps + 1
    /\ trace' = Append(trace, "step")
    /\ pc' = "train_iter"
    /\ UNCHANGED <<epoch, which, it, mode, grad, loss, loss_accum, accum,
                   total_count, train_loss, train_metric, val_metric, test_metric,
                   metric, best_val_metric, best_test_metric,
                   stdout, log, hist, evalParams>>
    /\ UNCHANGED others

TrainReturn ==
    /\ pc = "train_return"
    /\ IF total_count = 0
       THEN /\ pc' = "failed"
            /\ UNCHANGED <<train_loss, log, which>>
       ELSE /\ train_loss' = Ratio(loss_accum, total_count)
            /\ log' = Append(log, <<"train", epoch>>)
            /\ which' = "train"
            /\ pc' = "test"
    /\ UNCHANGED <<epoch, it, mode, grad, params, loss, loss_accum, accum,
                   total_count, train_metric, val_metric, test_metric,
                   metric, best_val_metric, best_test_metric,
                   stdout, hist, trace, steps, evalParams>>
    /\ UNCHANGED others

Train ==
    \/ TrainBegin \/ TrainIter \/ TrainForward \/ TrainLoss \/ TrainZeroGrad
    \/ TrainBackward \/ TrainAccum \/ TrainStep \/ TrainReturn

\* ------------------------------------------------------------------ test(loader)
TestBegin ==
    /\ pc = "test"
    /\ mode' = "eval"
    /\ accum' = 0 /\ total_count' = 0
    /\ it' = 0
    /\ evalParams' = [evalParams EXCEPT ![which] = {}]
    /\ pc' = "test_iter"
    /\ UNCHANGED <<epoch, which, grad, params, loss, loss_accum,
                   train_loss, train_metric, val_metric, test_metric,
                   metric, best_val_metric, best_test_metric,
                   stdout, log, hist, trace, steps>>
    /\ UNCHANGED others

TestIter ==
    /\ pc = "test_iter"
    /\ IF it < Len(LoaderOf(which))
       THEN it' = it + 1 /\ pc' = "test_forward"
       ELSE it' = it /\ pc' = "test_return"
    /\ UNCHANGED <<epoch, which, mode, grad, params, loss, loss_accum, accum,
                   total_count, train_loss, train_metric, val_metric, test_metric,
                   metric, best_val_metric, best_test_metric,
                   stdout, log, hist, trace, steps, evalParams>>
    /\ UNCHANGED others

\* TestForward taking an optimizer step
TestForwardSteps ==
    /\ pc = "test_forward"
    /\ \/ /\ evalParams' = [evalParams EXCEPT ![which] = @ \cup {Len(params)}]
          /\ pc' = "test_accum"
       \/ /\ evalParams' = evalParams
          /\ pc' = "failed"
    /\ params' = IF pc' = "failed" THEN params ELSE Append(params, grad)
    /\ UNCHANGED <<epoch, which, it, mode, grad, loss, loss_accum, accum,
                   total_count, train_loss, train_metric, val_metric, test_metric,
                   metric, best_val_metric, best_test_metric,
                   stdout, log, hist, trace, steps>>
    /\ UNCHANGED others

TestForward ==
    /\ pc = "test_forward"
    /\ \/ /\ evalParams' = [evalParams EXCEPT ![which] = @ \cup {Len(params)}]
          /\ pc' = "test_accum"
       \/ /\ evalParams' = evalParams
          /\ pc' = "failed"
    /\ UNCHANGED <<epoch, which, it, mode, grad, params, loss, loss_accum, accum,
                   total_count, train_loss, train_metric, val_metric, test_metric,
                   metric, best_val_metric, best_test_metric,
                   stdout, log, hist, trace, steps>>
    /\ UNCHANGED others

\* the batch adds its number of correct predictions (classification) or its
\* summed squared error (otherwise), which the model's output decides
TestAccum ==
    /\ pc = "test_accum"
    /\ \E c \in 0..LoaderOf(which)[it] : accum' = accum + c
    /\ total_count' = total_count + LoaderOf(which)[it]
    /\ pc' = "test_iter"
    /\ UNCHANGED <<epoch, which, it, mode, grad, params, loss, loss_accum,
                   train_loss, train_metric, val_metric, test_metric,
                   metric, best_val_metric, best_test_metric,
                   stdout, log, hist, trace, steps, evalParams>>
    /\ UNCHANGED others

TestResult ==
    IF is_classification THEN Ratio(accum, total_count) ELSE Sqrt(accum, total_count)

\* TestReturn giving 0 over an empty loader instead of failing
TestReturnSwallows ==
    /\ pc = "test_return"
    /\ IF total_count = 0
       THEN /\ UNCHANGED <<log>>
            /\ CASE which = "train" ->
                      /\ train_metric' = Zero
                      /\ which' = "val" /\ pc' = "test"
                      /\ UNCHANGED <<val_metric, test_metric>>
                 [] which = "val" ->
                      /\ val_metric' = Zero
                      /\ which' = "test" /\ pc' = "test"
                      /\ UNCHANGED <<train_metric, test_metric>>
                 [] which = "test" ->
                      /\ test_metric' = Zero
                      /\ which' = which /\ pc' = "update"
                      /\ UNCHANGED <<train_metric, val_metric>>
       ELSE /\ log' = Append(log, <<"test", which, epoch>>)
            /\ CASE which = "train" ->
                      /\ train_metric' = TestResult
                      /\ which' = "val" /\ pc' = "test"
                      /\ UNCHANGED <<val_metric, test_metric>>
                 [] which = "val" ->
                      /\ val_metric' = TestResult
                      /\ which' = "test" /\ pc' = "test"
                      /\ UNCHANGED <<train_metric, test_metric>>
                 [] which = "test" ->
                      /\ test_metric' = TestResult
                      /\ which' = which /\ pc' = "update"
                      /\ UNCHANGED <<train_metric, val_metric>>
    /\ UNCHANGED <<epoch, it, mode, grad, params, loss, loss_accum, accum,
                   total_count, train_loss,
                   metric, best_val_metric, best_test_metric,
                   stdout, hist, trace, steps, evalParams>>
    /\ UNCHANGED others

TestReturn ==
    /\ pc = "test_return"
    /\ IF total_count = 0
       THEN /\ pc' = "failed"
            /\ UNCHANGED <<train_metric, val_metric, test_metric, which, log>>
       ELSE /\ log' = Append(log, <<"test", which, epoch>>)
            /\ CASE which = "train" ->
                      /\ train_metric' = TestResult
                      /\ which' = "val" /\ pc' = "test"
                      /\ UNCHANGED <<val_metric, test_metric>>
                 [] which = "val" ->
                      /\ val_metric' = TestResult
                      /\ which' = "test" /\ pc' = "test"
                      /\ UNCHANGED <<train_metric, test_metric>>
                 [] which = "test" ->
                      /\ test_metric' = TestResult
                      /\ which' = which /\ pc' = "update"
                      /\ UNCHANGED <<train_metric, val_metric>>
    /\ UNCHANGED <<epoch, it, mode, grad, params, loss, loss_accum, accum,
                   total_count, train_loss,
                   metric, best_val_metric, best_test_metric,
                   stdout, hist, trace, steps, evalParams>>
    /\ UNCHANGED others

Test == TestBegin \/ TestIter \/ TestForward \/ TestAccum \/ TestReturn

\* ------------------------------------------------------------------ epoch loop
\* Update keeping the latest epoch instead of the best
UpdateKeepsLast ==
    /\ pc = "update"
    /\ best_val_metric' = val_metric /\ best_test_metric' = test_metric
    /\ hist' = Append(hist, [val |-> val_metric, test |-> test_metric])
    /\ pc' = "print"
    /\ UNCHANGED <<epoch, which, it, mode, grad, params, loss, loss_accum, accum,
                   total_count, train_loss, train_metric, val_metric, test_metric,
                   metric, stdout, log, trace, steps, evalParams>>
    /\ UNCHANGED others

\* Update comparing with >= and <=
UpdateNonStrict ==
    /\ pc = "update"
    /\ IF is_classification /\ ~Less(val_metric, best_val_metric)
       THEN best_val_metric' = val_metric /\ best_test_metric' = test_metric
       ELSE IF ~is_classification /\ ~Less(best_val_metric, val_metric)
       THEN best_val_metric' = val_metric /\ best_test_metric' = test_metric
       ELSE UNCHANGED <<best_val_metric, best_test_metric>>
    /\ hist' = Append(hist, [val |-> val_metric, test |-> test_metric])
    /\ pc' = "print"
    /\ UNCHANGED <<epoch, which, it, mode, grad, params, loss, loss_accum, accum,
                   total_count, train_loss, train_metric, val_metric, test_metric,
                   metric, stdout, log, trace, steps, evalParams>>
    /\ UNCHANGED others

Update ==
    /\ pc = "update"
    /\ IF is_classification /\ Less(best_val_metric, val_metric)
       THEN best_val_metric' = val_metric /\ best_test_metric' = test_metric
       ELSE IF ~is_classification /\ Less(val_metric, best_val_metric)
       THEN best_val_metric' = val_metric /\ best_test_metric' = test_metric
       ELSE UNCHANGED <<best_val_metric, best_test_metric>>
    /\ hist' = Append(hist, [val |-> val_metric, test |-> test_metric])
    /\ pc' = "print"
    /\ UNCHANGED <<epoch, which, it, mode, grad, params, loss, loss_accum, accum,
                   total_count, train_loss, train_metric, val_metric, test_metric,
                   metric, stdout, log, trace, steps, evalParams>>
    /\ UNCHANGED others

\* The line of one epoch. stdout keeps the epoch, the metric's name and the Val
\* and Test figures of the line; its Train Loss and Train figures are the values
\* of train_loss and train_metric at this step and are not kept after it.
EpochLine ==
    [kind |-> "epoch", epoch |-> epoch, metric |-> metric,
     val |-> val_metric, test |-> test_metric]

PrintEpoch ==
    /\ pc = "print"
    /\ stdout' = Append(stdout, EpochLine)
    /\ pc' = "loop"
    /\ UNCHANGED <<epoch, which, it, mode, grad, params, loss, loss_accum, accum,
                   total_count, train_loss, train_metric, val_metric, test_metric,
                   metric, best_val_metric, best_test_metric,
                   log, hist, trace, steps, evalParams>>
    /\ UNCHANGED others

PrintBest ==
    /\ pc = "final"
    /\ stdout' = Append(stdout, [kind |-> "best", metric |-> metric,
                                 val |-> best_val_metric, test |-> best_test_metric])
    /\ pc' = "done"
    /\ UNCHANGED <<epoch, which, it, mode, grad, params, loss, loss_accum, accum,
                   total_count, train_loss, train_metric, val_metric, test_metric,
                   metric, best_val_metric, best_test_metric,
                   log, hist, trace, steps, evalParams>>
    /\ UNCHANGED others

Init == TrainInit /\ EmbedIdle /\ SetupIdle

Next == MetricInit \/ EpochLoop \/ Train \/ Test \/ Update \/ PrintEpoch \/ PrintBest

Spec == Init /\ [][Next]_vars

\* ================================================================== properties
\* a and b are the same figure
Eq(a, b) == ~Less(a, b) /\ ~Less(b, a)
RECURSIVE SumSeq(_)
SumSeq(q) == IF q = <<>> THEN 0 ELSE q[1] + SumSeq(Tail(q))
Range(q) == {q[i] : i \in DOMAIN q}
AllCols(d) == UNION {Range(d[s]) : s \in DOMAIN d}
EncodedStypes == {categorical, numerical, stype_embedding, multicategorical, timestamp}
InitialBest == IF is_classification THEN Zero ELSE Inf
\* a is a better validation figure than b
Better(a, b) == IF is_classification THEN Less(b, a) ELSE Less(a, b)
TrainBatchPcs ==
    {"train_forward", "train_loss", "train_zero_grad", "train_backward",
     "train_accum", "train_step"}
TestBatchPcs == {"test_forward", "test_accum"}
AfterRekey == {"encoders", "build_model", "setup_done"}

\* C1: a run that ends without a failure has printed one line per epoch, in the
\* order 1..E, then one final line; the line of epoch k is printed only after
\* train() and test() on the train, val and test loaders have returned in epoch
\* k, in that order; with E = 0 the final line shows the initial best values.
C1_PrintedLines ==
    /\ \A k \in 1..Len(stdout) :
         /\ stdout[k].kind = "epoch" =>
              /\ stdout[k].epoch = k
              /\ Len(log) >= 4 * k
              /\ log[4 * k - 3] = <<"train", k>>
              /\ log[4 * k - 2] = <<"test", "train", k>>
              /\ log[4 * k - 1] = <<"test", "val", k>>
              /\ log[4 * k] = <<"test", "test", k>>
         /\ stdout[k].kind = "best" => k = Len(stdout) /\ pc = "done"
    /\ pc = "done" =>
         /\ Len(stdout) = args_epochs + 1
         /\ Len(log) = 4 * args_epochs
         /\ \A k \in 1..args_epochs : stdout[k].kind = "epoch"
         /\ stdout[args_epochs + 1].kind = "best"
         /\ args_epochs = 0 =>
              /\ stdout[1].val = InitialBest
              /\ stdout[1].test = InitialBest

C1_Witness == pc = "done" /\ args_epochs = 2 /\ Len(stdout) = 3

\* C2: the embedding of every sentence is pooled as --pooling says: the first
\* token's hidden state for 'cls', the mean over the tokens for 'mean'.
C2_PoolingApplied ==
    pc = "embed_done" =>
        \A i \in DOMAIN last_hidden_state :
            IF args_pooling = "cls"
            THEN embedding[i] = last_hidden_state[i][1]
            ELSE embedding[i] * Len(last_hidden_state[i]) = SumSeq(last_hidden_state[i])

\* C3: the model is built with one encoder for each of the five stypes, every
\* stype keying the training frame is one of them, and nothing is left under
\* text_embedded.
C3_EveryStypeEncoded ==
    pc = "setup_done" =>
        /\ DOMAIN stype_encoder_dict = EncodedStypes
        /\ DOMAIN model_col_names \subseteq DOMAIN stype_encoder_dict
        /\ text_embedded \notin DOMAIN model_col_names
        /\ text_embedded \notin DOMAIN feat_dict

C3_Witness ==
    /\ pc = "setup_done"
    /\ DOMAIN model_col_names = EncodedStypes
    /\ text_embedded \in DOMAIN cols0

\* C4: a failure ends the script: once failed in epoch k, the output holds the
\* lines of the epochs before k and nothing else, and a run over an empty
\* loader prints no epoch line and, when E > 0, no final line.
C4_FailurePropagates ==
    /\ pc = "failed" =>
         /\ Len(stdout) = epoch - 1
         /\ \A k \in 1..Len(stdout) : stdout[k].kind = "epoch" /\ stdout[k].epoch < epoch
    /\ ((\E w \in LoaderNames : rows[w] = 0) /\ args_epochs > 0) => stdout = <<>>

C4_Witness ==
    /\ pc = "failed" /\ epoch = 2 /\ Len(stdout) = 1 /\ args_epochs = 2

\* C5: after every epoch, best_val_metric is the best (the largest Acc, the
\* smallest RMSE) of the initial value (0 for Acc, +infinity for RMSE) and the
\* validation figures of the epochs so far.
C5_RunningExtremum ==
    Len(hist) >= 1 =>
        /\ metric = (IF is_classification THEN "Acc" ELSE "RMSE")
        /\ ~Better(InitialBest, best_val_metric)
        /\ \A k \in 1..Len(hist) : ~Better(hist[k].val, best_val_metric)
        /\ \/ Eq(best_val_metric, InitialBest)
           \/ \E k \in 1..Len(hist) : best_val_metric = hist[k].val

C5_Witness ==
    /\ Len(hist) = 2
    /\ Better(hist[1].val, InitialBest)
    /\ Better(hist[2].val, hist[1].val)
    /\ best_val_metric = hist[2].val

\* C6: after an epoch's update, (best_val_metric, best_test_metric) is the
\* initial pair or the (val, test) pair of the earliest epoch whose validation
\* figure equals best_val_metric.
C6_PairOfOneEpoch ==
    Len(hist) >= 1 =>
        \/ /\ best_val_metric = InitialBest
           /\ best_test_metric = InitialBest
        \/ \E k \in 1..Len(hist) :
             /\ best_val_metric = hist[k].val
             /\ best_test_metric = hist[k].test
             /\ \A j \in 1..(k - 1) : ~Eq(hist[j].val, best_val_metric)

\* a tie on the validation figure keeps the earlier epoch, whose test figure
\* is not the best test figure seen
C6_Witness ==
    /\ Len(hist) = 2
    /\ Eq(hist[1].val, hist[2].val)
    /\ Better(hist[1].val, InitialBest)
    /\ best_test_metric = hist[1].test
    /\ Better(hist[2].test, best_test_metric)

\* C7: on every training batch the steps are forward, loss, zero_grad,
\* backward, step, once each and in that order; every optimizer step applies
\* the gradient of its own batch alone; train() takes one step per batch.
C7_StepOrder ==
    /\ pc = "train_loss" => trace = <<"forward">>
    /\ pc = "train_zero_grad" => trace = <<"forward", "loss">>
    /\ pc = "train_backward" => trace = <<"forward", "loss", "zero_grad">>
    /\ pc \in {"train_accum", "train_step"} =>
           trace = <<"forward", "loss", "zero_grad", "backward">>
    /\ (pc \in {"train_iter", "train_return"} /\ it > 0) =>
         /\ trace = <<"forward", "loss", "zero_grad", "backward", "step">>
         /\ params[Len(params)] = {<<epoch, it>>}
         /\ steps = it
    /\ pc = "train_return" => steps = Len(train_loader)

C7_Witness == pc = "train_return" /\ steps = 2 /\ epoch = 2

\* C8: test() leaves the parameters and the gradients as train() left them, so
\* the three figures of an epoch's line are computed with the parameters of the
\* last optimizer step of that epoch's train().
C8_TestFrame ==
    /\ pc \in {"test", "test_iter", "test_forward", "test_accum", "test_return",
               "update", "print"} =>
         /\ params # <<>>
         /\ params[Len(params)] = {<<epoch, Len(train_loader)>>}
         /\ grad = {<<epoch, Len(train_loader)>>}
         /\ Len(params) = epoch * Len(train_loader)
    /\ pc = "print" => \A w \in LoaderNames : evalParams[w] = {Len(params)}

C8_Witness == pc = "print" /\ epoch = 2 /\ Len(params) = 4

\* C9: the model is in training mode on every training batch and in
\* evaluation mode on every evaluation batch.
C9_ModeMatchesPhase ==
    /\ pc \in TrainBatchPcs => mode = "train"
    /\ pc \in TestBatchPcs => mode = "eval"

C9_Witness == pc = "train_forward" /\ epoch = 2 /\ evalParams["test"] # {}

\* C10 as stated: after the re-keying both dicts have the same keys, none is
\* text_embedded, and the frame has the columns it had before.
C10_NoColumnLost ==
    pc \in AfterRekey =>
        /\ DOMAIN col_names_dict = DOMAIN feat_dict
        /\ text_embedded \notin DOMAIN col_names_dict
        /\ AllCols(col_names_dict) = AllCols(cols0)
        /\ AllCols(feat_dict) = AllCols(cols0)

PriorEmbeddingCols ==
    IF stype_embedding \in DOMAIN cols0 THEN Range(cols0[stype_embedding]) ELSE {}

\* C10 amended: after the re-keying both dicts have the same keys, none is
\* text_embedded, and the frame has the columns it had before except those of
\* an embedding entry it already had, which the text_embedded columns replace.
C10_OnlyPriorEmbeddingLost ==
    pc \in AfterRekey =>
        /\ DOMAIN col_names_dict = DOMAIN feat_dict
        /\ DOMAIN col_names_dict = (DOMAIN cols0 \ {text_embedded}) \cup {stype_embedding}
        /\ AllCols(col_names_dict) = AllCols(cols0) \ PriorEmbeddingCols
        /\ AllCols(feat_dict) = AllCols(cols0) \ PriorEmbeddingCols
        /\ col_names_dict[stype_embedding] = cols0[text_embedded]
        /\ feat_dict[stype_embedding] = cols0[text_embedded]

C10_Witness ==
    /\ pc = "setup_done"
    /\ stype_embedding \notin DOMAIN cols0
    /\ Cardinality(DOMAIN cols0) >= 3
    /\ AllCols(col_names_dict) = AllCols(cols0)

====
